---- MODULE Spec2Model ----
(***************************************************************************)
(* FBHanoi: generalized Tower of Hanoi solved by a breadth first search    *)
(* over a graph of configurations that is built while it is explored       *)
(* (src/FBHanoi.cpp).                                                      *)
(*                                                                         *)
(* A configuration ("state" in the source) is a sequence with one entry    *)
(* per disk: entry d is the peg disk d is on.  The source indexes disks    *)
(* and pegs from 0; a TLA+ sequence is indexed from 1, so disk d of the    *)
(* source is position d+1 here, while peg numbers, loop counters and the   *)
(* vertex "index" field keep the source's 0-based values.  A Vertex* of    *)
(* the source is the position of the vertex in vtxList (std::list nodes    *)
(* never move), and NULL is 0.                                             *)
(***************************************************************************)
EXTENDS Integers, Sequences, FiniteSets, TLC

\* ------------------------------------------------------------------ bounds

\* Largest disk count read by main for the general inputs.
MaxDisks == 3

\* Largest peg count read by main.
MaxPegs == 3

\* Largest disk count of the inputs whose entries may lie outside [0, numPegs).
MaxBadDisks == 2

\* Largest disk count of the classic puzzle (all disks from peg 0 to peg 2).
MaxClassicDisks == 4

\* Magnitude of the values a call that ends without a return statement hands
\* back: what the return register happens to hold, an address-like int far
\* from any distance.  One value of each sign stands for them.
MaxUndefinedInt == 82782720

\* ------------------------------------------------------------------ state

VARIABLES
    numDisks,      \* main: first integer read
    numPegs,       \* main: second integer read (Graph::numPegs)
    startState,    \* main: start configuration, 0-based pegs
    endState,      \* main: goal configuration, 0-based pegs
    vtxList,       \* Graph::vtxList
    numVertices,   \* Graph::numVertices
    bfsList,       \* BuildAndExplore: the FIFO of Vertex*
    curVtx,        \* BuildAndExplore: the vertex being expanded (NULL outside)
    diskRad,       \* BuildAndExplore: outer loop counter
    peg,           \* BuildAndExplore: inner loop counter
    numMoves,      \* main: the value BuildAndExplore returned
    vtx,           \* main: cursor of the predecessor walk
    forwardList,   \* main: vertices of the path, start side first
    i,             \* main: counter of the predecessor walk
    output,        \* the move lines printed, each <<from, to>>
    pc             \* position in main / BuildAndExplore

vars == <<numDisks, numPegs, startState, endState, vtxList, numVertices,
          bfsList, curVtx, diskRad, peg, numMoves, vtx, forwardList, i,
          output, pc>>

\* ------------------------------------------------------------------ data

NULL == 0

kVertexColor_White == "White"

kVertexColor_Grey == "Grey"

kVertexColor_Black == "Black"

\* All sequences of length n (0 for n <= 0) over the set S.
RECURSIVE SeqsOf(_, _)
SeqsOf(n, S) ==
    IF n <= 0 THEN {<<>>}
    ELSE {Append(s, x) : s \in SeqsOf(n - 1, S), x \in S}

Min(S) == CHOOSE x \in S : \A y \in S : x <= y

\* std::equal(a.begin(), a.end(), b.begin()): b is read at the positions of a.
StdEqual(a, b) == \A k \in 1..Len(a) : a[k] = b[k]

\* NewVertex with the distance counted from 1.
NewVertex_DistanceOne(state, index) ==
    [color       |-> kVertexColor_White,
     index       |-> index,
     distance    |-> 1,
     edgeList    |-> <<>>,
     state       |-> state,
     predecessor |-> NULL,
     lastMove    |-> <<0, 0>>]

\* The Vertex GetVertex builds: memset to 0, then color, state and index.
NewVertex(state, index) ==
    [color       |-> kVertexColor_White,
     index       |-> index,
     distance    |-> 0,
     edgeList    |-> <<>>,
     state       |-> state,
     predecessor |-> NULL,
     lastMove    |-> <<0, 0>>]

\* GetVertex giving the new vertex the count without advancing it.
GetVertex_NoIncrement(vl, nv, state) ==
    LET hits == {k \in 1..Len(vl) : StdEqual(vl[k].state, state)}
    IN  IF hits # {}
        THEN [vtxList |-> vl, numVertices |-> nv, at |-> Min(hits)]
        ELSE [vtxList     |-> Append(vl, NewVertex(state, nv)),
              numVertices |-> nv,
              at          |-> Len(vl) + 1]

\* Graph::GetVertex: the first vertex of the list whose state equals `state`,
\* else a new one appended.  `at` is the Vertex* returned.
GetVertex(vl, nv, state) ==
    LET hits == {k \in 1..Len(vl) : StdEqual(vl[k].state, state)}
    IN  IF hits # {}
        THEN [vtxList |-> vl, numVertices |-> nv, at |-> Min(hits)]
        ELSE [vtxList     |-> Append(vl, NewVertex(state, nv)),
              numVertices |-> nv + 1,
              at          |-> Len(vl) + 1]

\* PegHasSmallerDisk with the loop stopping before disk 0 (i > 0).
PegHasSmallerDisk_SkipsDiskZero(state, d, p) ==
    \E k \in 1..(d - 1) : state[k + 1] = p

\* PegHasSmallerDisk that never finds a smaller disk.
PegHasSmallerDisk_Never(state, d, p) == FALSE

\* PegHasSmallerDisk(state, diskRad, peg): some disk of index below diskRad
\* is on peg.
PegHasSmallerDisk(state, d, p) ==
    \E k \in 0..(d - 1) : state[k + 1] = p

\* DiskNotSmallestOnPeg with the loop stopping before disk 0 (i > 0).
DiskNotSmallestOnPeg_SkipsDiskZero(state, d) ==
    \E k \in 1..(d - 1) : state[k + 1] = state[d + 1]

\* DiskNotSmallestOnPeg with the loop starting at diskRad itself.
DiskNotSmallestOnPeg_IncludesSelf(state, d) ==
    \E k \in 0..d : state[k + 1] = state[d + 1]

\* DiskNotSmallestOnPeg(state, diskRad): some disk of index below diskRad
\* is on diskRad's peg.
DiskNotSmallestOnPeg(state, d) ==
    \E k \in 0..(d - 1) : state[k + 1] = state[d + 1]

\* NeighborMoves with the peg loop ending one peg early (peg < numPegs - 1).
RECURSIVE NeighborMoves_SkipsLastPeg(_, _, _, _)
NeighborMoves_SkipsLastPeg(state, np, d, p) ==
    IF d >= Len(state) THEN <<>>
    ELSE IF DiskNotSmallestOnPeg(state, d)
         THEN NeighborMoves_SkipsLastPeg(state, np, d + 1, 0)
    ELSE IF p >= np - 1 THEN NeighborMoves_SkipsLastPeg(state, np, d + 1, 0)
    ELSE IF p = state[d + 1] \/ PegHasSmallerDisk(state, d, p)
         THEN NeighborMoves_SkipsLastPeg(state, np, d, p + 1)
    ELSE <<<<d, p>>>> \o NeighborMoves_SkipsLastPeg(state, np, d, p + 1)

\* The two nested loops of BuildAndExplore from position (d, p) on: the
\* <<diskRad, peg>> pairs that pass both `continue` tests, in loop order.
RECURSIVE NeighborMoves(_, _, _, _)
NeighborMoves(state, np, d, p) ==
    IF d >= Len(state) THEN <<>>
    ELSE IF DiskNotSmallestOnPeg(state, d) THEN NeighborMoves(state, np, d + 1, 0)
    ELSE IF p >= np THEN NeighborMoves(state, np, d + 1, 0)
    ELSE IF p = state[d + 1] \/ PegHasSmallerDisk(state, d, p)
         THEN NeighborMoves(state, np, d, p + 1)
    ELSE <<<<d, p>>>> \o NeighborMoves(state, np, d, p + 1)

\* LastMove left in 0-based numbering.
LastMove_ZeroBased(from, to) == <<from, to>>

\* LastMove with source and destination exchanged.
LastMove_Swapped(from, to) == <<to + 1, from + 1>>

\* lastMove as stored, lines 229-230: both pegs in 1-based numbering.
LastMove(from, to) == <<from + 1, to + 1>>

\* Discover with the distance copied from the current vertex, not increased.
Discover_NoIncrement(v, cur, curDistance, from, to) ==
    [v EXCEPT !.predecessor = cur,
              !.distance    = curDistance,
              !.color       = kVertexColor_Grey,
              !.lastMove    = LastMove(from, to)]

\* What a newly discovered (White) vertex is given: lines 226-230.
Discover(v, cur, curDistance, from, to) ==
    [v EXCEPT !.predecessor = cur,
              !.distance    = curDistance + 1,
              !.color       = kVertexColor_Grey,
              !.lastMove    = LastMove(from, to)]

\* AddNeighbor that puts an Edge on the current vertex only.
AddNeighbor_OneWay(vl, nv, q, cur, d, p) ==
    LET curState == vl[cur].state
        newState == [curState EXCEPT ![d + 1] = p]
        got      == GetVertex(vl, nv, newState)
        new      == got.at
        vl1      == got.vtxList
        vl3      == [vl1 EXCEPT ![cur].edgeList = <<vl1[new].index>> \o @]
        white    == vl3[new].color = kVertexColor_White
    IN  [vtxList     |-> IF white
                         THEN [vl3 EXCEPT ![new] = Discover(@, cur, vl3[cur].distance,
                                                            curState[d + 1], p)]
                         ELSE vl3,
         numVertices |-> got.numVertices,
         bfsList     |-> IF white THEN Append(q, new) ELSE q]

\* AddNeighbor without the test of the neighbour's colour: every neighbour
\* is discovered and queued.
AddNeighbor_NoColorTest(vl, nv, q, cur, d, p) ==
    LET curState == vl[cur].state
        newState == [curState EXCEPT ![d + 1] = p]
        got      == GetVertex(vl, nv, newState)
        new      == got.at
        vl1      == got.vtxList
        vl2      == [vl1 EXCEPT ![cur].edgeList = <<vl1[new].index>> \o @]
        vl3      == [vl2 EXCEPT ![new].edgeList = <<vl2[cur].index>> \o @]
    IN  [vtxList     |-> [vl3 EXCEPT ![new] = Discover(@, cur, vl3[cur].distance,
                                                       curState[d + 1], p)],
         numVertices |-> got.numVertices,
         bfsList     |-> Append(q, new)]

\* AddNeighbor that queues a discovered vertex at the front (push_front).
AddNeighbor_PushFront(vl, nv, q, cur, d, p) ==
    LET curState == vl[cur].state
        newState == [curState EXCEPT ![d + 1] = p]
        got      == GetVertex(vl, nv, newState)
        new      == got.at
        vl1      == got.vtxList
        vl2      == [vl1 EXCEPT ![cur].edgeList = <<vl1[new].index>> \o @]
        vl3      == [vl2 EXCEPT ![new].edgeList = <<vl2[cur].index>> \o @]
        white    == vl3[new].color = kVertexColor_White
    IN  [vtxList     |-> IF white
                         THEN [vl3 EXCEPT ![new] = Discover(@, cur, vl3[cur].distance,
                                                            curState[d + 1], p)]
                         ELSE vl3,
         numVertices |-> got.numVertices,
         bfsList     |-> IF white THEN <<new>> \o q ELSE q]

\* One pass of the inner loop body (lines 207-233) for the pair (d, p) of the
\* vertex at `cur`: the neighbour is looked up or created, one Edge is put at
\* the head of each endpoint's list, and a White neighbour is discovered and
\* queued.
AddNeighbor(vl, nv, q, cur, d, p) ==
    LET curState == vl[cur].state
        newState == [curState EXCEPT ![d + 1] = p]
        got      == GetVertex(vl, nv, newState)
        new      == got.at
        vl1      == got.vtxList
        vl2      == [vl1 EXCEPT ![cur].edgeList = <<vl1[new].index>> \o @]
        vl3      == [vl2 EXCEPT ![new].edgeList = <<vl2[cur].index>> \o @]
        white    == vl3[new].color = kVertexColor_White
    IN  [vtxList     |-> IF white
                         THEN [vl3 EXCEPT ![new] = Discover(@, cur, vl3[cur].distance,
                                                            curState[d + 1], p)]
                         ELSE vl3,
         numVertices |-> got.numVertices,
         bfsList     |-> IF white THEN Append(q, new) ELSE q]

\* ------------------------------------------------------------------ the
\* search as a function of its arguments, built from the same loop body.

\* The loops of lines 191-235 for the vertex at `cur`: AddNeighbor for each
\* pair of `moves` in turn.  g is [vtxList, numVertices, bfsList].
RECURSIVE ExpandAll(_, _, _)
ExpandAll(g, cur, moves) ==
    IF moves = <<>> THEN g
    ELSE ExpandAll(AddNeighbor(g.vtxList, g.numVertices, g.bfsList, cur,
                               moves[1][1], moves[1][2]),
                   cur, Tail(moves))

\* The while loop of lines 184-242.  `returns` is FALSE when the loop ends
\* with the queue empty (no return statement is reached).
RECURSIVE SearchLoop(_, _, _)
SearchLoop(g, goal, np) ==
    IF g.bfsList = <<>>
    THEN [returns |-> FALSE, value |-> 0, vtxList |-> g.vtxList,
          numVertices |-> g.numVertices]
    ELSE LET cur   == Head(g.bfsList)
             g1    == [g EXCEPT !.bfsList = Tail(@)]
             g2    == ExpandAll(g1, cur,
                                NeighborMoves(g1.vtxList[cur].state, np, 0, 0))
             g3    == [g2 EXCEPT !.vtxList[cur].color = kVertexColor_Black]
         IN  IF StdEqual(g3.vtxList[cur].state, goal)
             THEN [returns |-> TRUE, value |-> g3.vtxList[cur].distance,
                   vtxList |-> g3.vtxList, numVertices |-> g3.numVertices]
             ELSE SearchLoop(g3, goal, np)

\* Cleanup that frees the edges but leaves the vertices and the count.
Cleanup_KeepsVertices(vl, nv) ==
    [vtxList     |-> [k \in 1..Len(vl) |-> [vl[k] EXCEPT !.edgeList = <<>>]],
     numVertices |-> nv]

\* Graph::Cleanup on a graph holding vertices vl and count nv: every Edge is
\* deleted, the list cleared and the count set to 0.
Cleanup(vl, nv) == [vtxList |-> <<>>, numVertices |-> 0]

\* Graph::BuildAndExplore(startState, endState) called on a Graph of np pegs
\* that holds vertices vl and count nv: Cleanup, then the start vertex made
\* Grey and queued, then the loop.
BuildAndExploreOn(vl, nv, start, goal, np) ==
    LET clean == Cleanup(vl, nv)
        got   == GetVertex(clean.vtxList, clean.numVertices, start)
    IN  SearchLoop([vtxList     |-> [got.vtxList EXCEPT ![got.at].color =
                                                        kVertexColor_Grey],
                    numVertices |-> got.numVertices,
                    bfsList     |-> <<got.at>>],
                   goal, np)

\* Graph::BuildAndExplore(startState, endState) on a Graph just constructed.
BuildAndExplore(start, goal, np) == BuildAndExploreOn(<<>>, 0, start, goal, np)

\* ------------------------------------------------------------------ inputs

\* What main can read: any two counts, then numDisks entries for each
\* configuration.  Entries of the first group lie in [0, numPegs); those of
\* the second group may also be -1 or numPegs.
GeneralInputs ==
    /\ numDisks \in -1..MaxDisks
    /\ numPegs \in -1..MaxPegs
    /\ startState \in SeqsOf(numDisks, 0..(numPegs - 1))
    /\ endState \in SeqsOf(numDisks, 0..(numPegs - 1))

OutOfRangeInputs ==
    /\ numDisks \in 1..MaxBadDisks
    /\ numPegs \in -1..MaxPegs
    /\ startState \in SeqsOf(numDisks, -1..numPegs)
    /\ endState \in SeqsOf(numDisks, -1..numPegs)

ClassicInputs ==
    /\ numDisks \in 1..MaxClassicDisks
    /\ numPegs = 3
    /\ startState = [k \in 1..numDisks |-> 0]
    /\ endState = [k \in 1..numDisks |-> 2]

\* The state main is in before it calls BuildAndExplore: a Graph just
\* constructed (line 43), nothing printed.
Fresh ==
    /\ vtxList = <<>>
    /\ numVertices = 0
    /\ bfsList = <<>>
    /\ curVtx = NULL
    /\ diskRad = 0
    /\ peg = 0
    /\ numMoves = 0
    /\ vtx = NULL
    /\ forwardList = <<>>
    /\ i = 0
    /\ output = <<>>
    /\ pc = "call"

Init == (GeneralInputs \/ OutOfRangeInputs) /\ Fresh

InitClassic == ClassicInputs /\ Fresh

\* ------------------------------------------------------------------ actions

inputs == <<numDisks, numPegs, startState, endState>>

mainVars == <<numMoves, vtx, forwardList, i, output>>

\* BuildAndExplore, lines 169-182: Cleanup, the start vertex made Grey and
\* queued.
Begin ==
    /\ pc = "call"
    /\ LET clean == Cleanup(vtxList, numVertices)
           got   == GetVertex(clean.vtxList, clean.numVertices, startState)
       IN  /\ vtxList' = [got.vtxList EXCEPT ![got.at].color = kVertexColor_Grey]
           /\ numVertices' = got.numVertices
           /\ bfsList' = <<got.at>>
    /\ pc' = "loop"
    /\ UNCHANGED <<inputs, mainVars, curVtx, diskRad, peg>>

\* Dequeue that makes the vertex Black as it is taken from the queue.
Dequeue_SettlesEarly ==
    /\ pc = "loop"
    /\ bfsList # <<>>
    /\ curVtx' = Head(bfsList)
    /\ bfsList' = Tail(bfsList)
    /\ vtxList' = [vtxList EXCEPT ![Head(bfsList)].color = kVertexColor_Black]
    /\ diskRad' = 0
    /\ peg' = 0
    /\ pc' = "expand"
    /\ UNCHANGED <<inputs, mainVars, numVertices>>

\* Lines 184-191: the loop test passes, the front vertex is taken.
Dequeue ==
    /\ pc = "loop"
    /\ bfsList # <<>>
    /\ curVtx' = Head(bfsList)
    /\ bfsList' = Tail(bfsList)
    /\ diskRad' = 0
    /\ peg' = 0
    /\ pc' = "expand"
    /\ UNCHANGED <<inputs, mainVars, vtxList, numVertices>>

\* Lines 191-235: the loops run on to the next pair that passes both tests,
\* and the loop body runs for it.
VisitNeighbor ==
    /\ pc = "expand"
    /\ \E moves \in {NeighborMoves(vtxList[curVtx].state, numPegs, diskRad, peg)} :
           /\ moves # <<>>
           /\ \E got \in {AddNeighbor(vtxList, numVertices, bfsList, curVtx,
                                      moves[1][1], moves[1][2])} :
                  /\ vtxList' = got.vtxList
                  /\ numVertices' = got.numVertices
                  /\ bfsList' = got.bfsList
                  /\ diskRad' = moves[1][1]
                  /\ peg' = moves[1][2] + 1
    /\ UNCHANGED <<inputs, mainVars, curVtx, pc>>

\* Lines 237-241: the loops are over; the vertex is made Black and, when its
\* state equals the goal, its distance is returned.
Settle ==
    /\ pc = "expand"
    /\ NeighborMoves(vtxList[curVtx].state, numPegs, diskRad, peg) = <<>>
    /\ vtxList' = [vtxList EXCEPT ![curVtx].color = kVertexColor_Black]
    /\ diskRad' = Len(vtxList[curVtx].state)
    /\ peg' = 0
    /\ IF StdEqual(vtxList[curVtx].state, endState)
       THEN /\ numMoves' = vtxList[curVtx].distance
            /\ pc' = "returned"
       ELSE /\ numMoves' = numMoves
            /\ pc' = "loop"
    /\ UNCHANGED <<inputs, numVertices, bfsList, curVtx, vtx, forwardList, i,
                   output>>

\* The ints main may receive from a call that ended without a return
\* statement.
UndefinedInts == {-MaxUndefinedInt, MaxUndefinedInt}

\* Lines 184 and 243: the queue is empty and control reaches the end of a
\* function that returns int without a return statement, which the language
\* leaves undefined.  In a build that still returns (g++ -O0) main receives
\* the content of the return register.
FallOffEnd ==
    /\ pc = "loop"
    /\ bfsList = <<>>
    /\ numMoves' \in UndefinedInts
    /\ pc' = "returned"
    /\ UNCHANGED <<inputs, vtxList, numVertices, bfsList, curVtx, diskRad, peg,
                   vtx, forwardList, i, output>>

\* Lines 184 and 243 in a build that treats the end of the function as
\* unreachable (g++ -O1 and above): control runs on past the loop, the
\* process is ended inside the call (std::bad_alloc, or a fault) and main
\* gets nothing and prints nothing.
AbortInCall ==
    /\ pc = "loop"
    /\ bfsList = <<>>
    /\ pc' = "aborted"
    /\ UNCHANGED <<inputs, mainVars, vtxList, numVertices, bfsList, curVtx,
                   diskRad, peg>>

\* main, lines 322-325: the goal vertex is fetched with GetVertex.
Lookup ==
    /\ pc = "returned"
    /\ LET got == GetVertex(vtxList, numVertices, endState)
       IN  /\ vtxList' = got.vtxList
           /\ numVertices' = got.numVertices
           /\ vtx' = got.at
    /\ forwardList' = <<>>
    /\ i' = 0
    /\ pc' = "walk"
    /\ UNCHANGED <<inputs, bfsList, curVtx, diskRad, peg, numMoves, output>>

\* main, lines 326-330: one pass of the predecessor walk.
WalkBack ==
    /\ pc = "walk"
    /\ i < numMoves
    /\ vtx # NULL
    /\ forwardList' = <<vtx>> \o forwardList
    /\ vtx' = vtxList[vtx].predecessor
    /\ i' = i + 1
    /\ UNCHANGED <<inputs, vtxList, numVertices, bfsList, curVtx, diskRad, peg,
                   numMoves, output, pc>>

\* main, line 329 with vtx == NULL: the read of vtx->predecessor faults.
NullDereference ==
    /\ pc = "walk"
    /\ i < numMoves
    /\ vtx = NULL
    /\ forwardList' = <<vtx>> \o forwardList
    /\ pc' = "crashed"
    /\ UNCHANGED <<inputs, vtxList, numVertices, bfsList, curVtx, diskRad, peg,
                   numMoves, vtx, i, output>>

\* main, lines 332-337: the count and one line per vertex of forwardList.
PrintMoves ==
    /\ pc = "walk"
    /\ i >= numMoves
    /\ output' = [k \in 1..Len(forwardList) |-> vtxList[forwardList[k]].lastMove]
    /\ pc' = "printed"
    /\ UNCHANGED <<inputs, vtxList, numVertices, bfsList, curVtx, diskRad, peg,
                   numMoves, vtx, forwardList, i>>

\* main, line 339: ~Graph runs Cleanup (lines 64-79).
DeleteGraph ==
    /\ pc = "printed"
    /\ vtxList' = Cleanup(vtxList, numVertices).vtxList
    /\ numVertices' = Cleanup(vtxList, numVertices).numVertices
    /\ pc' = "done"
    /\ UNCHANGED <<inputs, bfsList, curVtx, diskRad, peg, numMoves, vtx,
                   forwardList, i, output>>

Next ==
    \/ Begin
    \/ Dequeue
    \/ VisitNeighbor
    \/ Settle
    \/ FallOffEnd
    \/ AbortInCall
    \/ Lookup
    \/ WalkBack
    \/ NullDereference
    \/ PrintMoves
    \/ DeleteGraph

Spec == Init /\ [][Next]_vars

\* The program is sequential and runs each statement as soon as it is reached.
FairSpec == Init /\ [][Next]_vars /\ WF_vars(Next)

\* The classic puzzle only.  The queue never empties there and the walk never
\* meets NULL, so FallOffEnd, AbortInCall and NullDereference are never
\* enabled.
NextClassic ==
    \/ Begin
    \/ Dequeue
    \/ VisitNeighbor
    \/ Settle
    \/ Lookup
    \/ WalkBack
    \/ PrintMoves
    \/ DeleteGraph

SpecClassic == InitClassic /\ [][NextClassic]_vars

\* ------------------------------------------------------------------ terms
\* of the properties

\* The input main read is well formed: positive counts and every entry of
\* both configurations a peg of [0, numPegs).
WellFormed ==
    /\ numDisks > 0
    /\ numPegs > 0
    /\ Len(startState) = numDisks
    /\ Len(endState) = numDisks
    /\ \A k \in 1..numDisks : /\ startState[k] \in 0..(numPegs - 1)
                              /\ endState[k] \in 0..(numPegs - 1)

\* The search has settled a vertex equal to the goal (and so has returned its
\* distance at line 240).
GoalSettled ==
    \E k \in 1..Len(vtxList) : /\ vtxList[k].color = kVertexColor_Black
                               /\ vtxList[k].state = endState

\* The puzzle itself, stated without the search: t is s after one disk d went
\* to another peg, where no disk of lower index (a smaller disk) was on d's
\* peg or on the peg it went to.
LegalMove(s, t) ==
    \E d \in 1..Len(s) :
        /\ t[d] # s[d]
        /\ \A k \in 1..Len(s) : k # d => t[k] = s[k]
        /\ \A k \in 1..(d - 1) : s[k] # s[d] /\ s[k] # t[d]

Successors(s, np) ==
    {t \in {[s EXCEPT ![d] = p] : d \in 1..Len(s), p \in 0..(np - 1)} :
        LegalMove(s, t)}

\* The least n such that goal is n legal moves from a configuration of
\* `frontier`, counting from `n`; -1 when there is none.
RECURSIVE LevelOf(_, _, _, _, _)
LevelOf(frontier, seen, goal, np, n) ==
    IF goal \in frontier THEN n
    ELSE IF frontier = {} THEN -1
    ELSE LET next == UNION {Successors(s, np) : s \in frontier} \ seen
         IN  LevelOf(next, seen \cup next, goal, np, n + 1)

ShortestPath(start, goal, np) == LevelOf({start}, {start}, goal, np, 0)

RECURSIVE Pow2(_)
Pow2(n) == IF n <= 0 THEN 1 ELSE 2 * Pow2(n - 1)

\* The printed moves replayed from configuration s: each line <<from, to>>
\* moves the top disk of peg from-1 (the disk of least index there) to peg
\* to-1.  ok is FALSE as soon as a line names an empty peg, moves onto a
\* smaller disk or names the same peg twice.
RECURSIVE Replay(_, _)
Replay(s, moves) ==
    IF moves = <<>> THEN [ok |-> TRUE, state |-> s]
    ELSE LET from == moves[1][1] - 1
             to   == moves[1][2] - 1
             onFrom == {k \in 1..Len(s) : s[k] = from}
             onTo   == {k \in 1..Len(s) : s[k] = to}
         IN  IF onFrom = {} \/ from = to THEN [ok |-> FALSE, state |-> s]
             ELSE LET d == Min(onFrom)
                  IN  IF \E k \in onTo : k < d
                      THEN [ok |-> FALSE, state |-> s]
                      ELSE Replay([s EXCEPT ![d] = to], Tail(moves))

\* The disk (0-based index) whose peg differs between configurations s and t.
MovedDisk(s, t) == (CHOOSE d \in 1..Len(s) : s[d] # t[d]) - 1

\* The stepwise search and the search as a function return the same.
StepwiseAgrees ==
    pc = "returned" =>
        LET r == BuildAndExplore(startState, endState, numPegs)
        IN  /\ r.returns = GoalSettled
            /\ r.returns => r.value = numMoves /\ r.vtxList = vtxList

\* ------------------------------------------------------------------ claims

\* C1: for every well-formed input with at least 3 pegs, the value
\* BuildAndExplore returns is the least number of legal single-disk moves
\* from the start to the goal configuration.
C1_ReturnsShortestPath ==
    (pc = "returned" /\ WellFormed /\ numPegs >= 3) =>
        numMoves = ShortestPath(startState, endState, numPegs)

C1_Witness ==
    /\ pc = "returned"
    /\ WellFormed
    /\ numPegs >= 3
    /\ numDisks = 3
    /\ numMoves = 7
    /\ ShortestPath(startState, endState, numPegs) = 7

\* C2: the classic puzzle on 3 pegs (all N disks from peg 0 to peg 2)
\* returns 2^N - 1.
C2_ClassicDistance ==
    pc = "returned" => numMoves = Pow2(numDisks) - 1

C2_Witness ==
    /\ pc = "returned"
    /\ numDisks = 4
    /\ numMoves = 15

\* C3: for every well-formed input with at least 3 pegs the search comes to
\* return the non-negative distance of a settled vertex equal to the goal,
\* and the queue is never found empty by the loop test.
C3_Terminates ==
    /\ (pc = "call" /\ WellFormed /\ numPegs >= 3)
           ~> (pc = "returned" /\ GoalSettled /\ numMoves >= 0
               /\ vtxList[curVtx].state = endState
               /\ vtxList[curVtx].distance = numMoves)
    /\ []((pc = "loop" /\ WellFormed /\ numPegs >= 3) => bfsList # <<>>)

C3_Witness ==
    /\ pc = "returned"
    /\ WellFormed
    /\ numPegs >= 3
    /\ GoalSettled
    /\ bfsList # <<>>
    /\ numMoves > 0

\* C4: after a search that returned the distance n of the goal, the walk
\* along predecessor links takes n steps, none from a vertex without
\* predecessor, and ends on the start vertex, whose predecessor is NULL; as
\* many moves are printed as the distance returned.
C4_PathLengthIsDistance ==
    /\ (pc = "printed" /\ GoalSettled) =>
           /\ Len(forwardList) = numMoves
           /\ Len(output) = numMoves
           /\ \A k \in 1..Len(forwardList) :
                  vtxList[forwardList[k]].predecessor # NULL
           /\ vtx # NULL
           /\ vtxList[vtx].state = startState
           /\ vtxList[vtx].predecessor = NULL
    /\ pc = "crashed" => ~GoalSettled

C4_Witness ==
    /\ pc = "printed"
    /\ GoalSettled
    /\ numMoves >= 3
    /\ Len(forwardList) = numMoves

\* C5: the printed moves, replayed in order from the start configuration,
\* are each legal when applied (the top disk of the source peg goes to a peg
\* holding no smaller disk) and end in the goal configuration.
C5_ReplayIsLegal ==
    (pc = "printed" /\ GoalSettled) =>
        LET r == Replay(startState, output)
        IN  r.ok /\ r.state = endState

C5_Witness ==
    /\ pc = "printed"
    /\ GoalSettled
    /\ WellFormed
    /\ Len(output) >= 4
    /\ Replay(startState, output).state = endState

\* C6 as stated: 3 disks on 3 pegs from [0,0,0] to [2,2,2] give distance 7
\* and a first move of the disk at index 2 from peg 1 to peg 3.
C6_Original ==
    (pc = "printed" /\ numDisks = 3) =>
        /\ numMoves = 7
        /\ output[1] = <<1, 3>>
        /\ MovedDisk(startState, vtxList[forwardList[1]].state) = 2

\* C6, amended: 3 disks on 3 pegs from [0,0,0] to [2,2,2] give distance 7 and
\* a first move from peg 1 to peg 3 of the disk at index 0, the smallest disk
\* (a lower index is a smaller disk).
C6_FirstMoveIsDiskZero ==
    (pc = "printed" /\ numDisks = 3) =>
        /\ numMoves = 7
        /\ Len(output) = 7
        /\ output[1] = <<1, 3>>
        /\ MovedDisk(startState, vtxList[forwardList[1]].state) = 0
        /\ ~DiskNotSmallestOnPeg(startState, 0)
        /\ DiskNotSmallestOnPeg(startState, 2)

C6_Witness ==
    /\ pc = "printed"
    /\ numDisks = 3
    /\ startState = <<0, 0, 0>>
    /\ endState = <<2, 2, 2>>
    /\ Len(output) = 7

\* C7: when the search from A finds B at some distance, the search from B
\* finds A at the same distance.
C7_Symmetry ==
    (pc = "returned" /\ WellFormed /\ GoalSettled) =>
        LET back == BuildAndExplore(endState, startState, numPegs)
        IN  back.returns /\ back.value = numMoves

C7_Witness ==
    /\ pc = "returned"
    /\ WellFormed
    /\ GoalSettled
    /\ startState # endState
    /\ numMoves >= 4
    /\ BuildAndExplore(endState, startState, numPegs).value >= 4

\* C8: when start and goal are the same valid configuration the search
\* returns 0 and no move is printed.
C8_ZeroDistance ==
    (WellFormed /\ startState = endState) =>
        /\ pc = "returned" => numMoves = 0 /\ GoalSettled
        /\ pc = "printed" => output = <<>> /\ forwardList = <<>>
        /\ pc \notin {"crashed", "aborted"}

C8_Witness ==
    /\ WellFormed
    /\ startState = endState
    /\ numDisks = 3
    /\ pc = "printed"
    /\ output = <<>>

\* C9: the search hands main a distance, and main walks the predecessor
\* links, only when a vertex equal to the goal was settled; a search whose
\* queue empties first ends without either.
C9_NoPathIsAFailure ==
    pc \in {"returned", "walk", "printed", "crashed"} => GoalSettled

\* C10: malformed input is rejected before the search: no vertex is created
\* and no step of the search is taken for it.
C10_MalformedRejected ==
    ~WellFormed => vtxList = <<>> /\ numVertices = 0 /\ pc = "call"

\* How many entries of the sequence q equal x.
Count(q, x) == Cardinality({k \in 1..Len(q) : q[k] = x})

\* C11: the lookup of the goal vertex that main makes after the search
\* creates no vertex: the vertex collection is as large after it as before.
C11_LookupNeverCreates ==
    [][pc = "returned" =>
           /\ Len(vtxList') = Len(vtxList)
           /\ numVertices' = numVertices]_vars

\* C12: no two vertices hold equal configurations, and the identifiers are
\* 0 .. numVertices-1 in the order of creation.
C12_VerticesUnique ==
    /\ numVertices = Len(vtxList)
    /\ \A k \in 1..Len(vtxList) : vtxList[k].index = k - 1
    /\ \A j, k \in 1..Len(vtxList) :
           j # k => vtxList[j].state # vtxList[k].state

C12_Witness ==
    /\ pc = "expand"
    /\ numVertices >= 9
    /\ GetVertex(vtxList, numVertices, endState).at < Len(vtxList)
    /\ \E k \in 1..Len(vtxList) : Len(vtxList[k].edgeList) >= 3

\* C13: a vertex's edge list holds any neighbour identifier at most once.
C13_NoDuplicateEdges ==
    \A k \in 1..Len(vtxList) :
        \A x \in 0..(numVertices - 1) : Count(vtxList[k].edgeList, x) <= 1

\* C14: whenever the edge list of vertex u holds n entries for vertex v, the
\* edge list of v holds n entries for u.
C14_EdgeSymmetry ==
    \A u, v \in 1..Len(vtxList) :
        Count(vtxList[u].edgeList, vtxList[v].index)
            = Count(vtxList[v].edgeList, vtxList[u].index)

C14_Witness ==
    \E u, v \in 1..Len(vtxList) :
        /\ u # v
        /\ Count(vtxList[u].edgeList, vtxList[v].index) = 2
        /\ Count(vtxList[v].edgeList, vtxList[u].index) = 2

\* C15: distance, predecessor and lastMove of a vertex change only in the
\* step that takes it from White to Grey, and the start vertex (the first of
\* the list) has distance 0 and no predecessor throughout.
C15_WrittenOnce ==
    [][/\ \A k \in 1..Len(vtxList) :
              (k <= Len(vtxList')
                 /\ (vtxList[k].color # kVertexColor_White
                       \/ vtxList'[k].color = kVertexColor_White))
              => /\ vtxList'[k].distance = vtxList[k].distance
                 /\ vtxList'[k].predecessor = vtxList[k].predecessor
                 /\ vtxList'[k].lastMove = vtxList[k].lastMove
       /\ Len(vtxList') >= 1
              => /\ vtxList'[1].state = startState
                 /\ vtxList'[1].distance = 0
                 /\ vtxList'[1].predecessor = NULL]_vars

C15_Witness ==
    /\ pc = "expand"
    /\ \E k \in 1..Len(vtxList) :
           /\ vtxList[k].color = kVertexColor_Black
           /\ vtxList[k].distance >= 2
           /\ Len(vtxList[k].edgeList) >= 4
    /\ Len(vtxList[1].edgeList) >= 4

\* Every configuration one legal move from that of vertex k is held by a
\* vertex that is not White and is named in k's edge list.
AllNeighboursGenerated(k) ==
    \A t \in Successors(vtxList[k].state, numPegs) :
        \E j \in 1..Len(vtxList) :
            /\ vtxList[j].state = t
            /\ vtxList[j].color # kVertexColor_White
            /\ Count(vtxList[k].edgeList, vtxList[j].index) >= 1

\* C16: within a search a Black vertex stays Black and a Grey vertex never
\* becomes White; a vertex becomes Black only from Grey, as the vertex taken
\* from the queue, after the loops over its neighbours have ended.
C16_ColourMonotone ==
    [][\A k \in 1..Len(vtxList) :
           k <= Len(vtxList') =>
             /\ vtxList[k].color = kVertexColor_Black
                    => vtxList'[k].color = kVertexColor_Black
             /\ vtxList[k].color = kVertexColor_Grey
                    => vtxList'[k].color # kVertexColor_White
             /\ (vtxList[k].color # kVertexColor_Black
                    /\ vtxList'[k].color = kVertexColor_Black)
                    => /\ vtxList[k].color = kVertexColor_Grey
                       /\ pc = "expand"
                       /\ k = curVtx
                       /\ Count(bfsList, k) = 0
                       /\ AllNeighboursGenerated(k)]_vars

C16_Witness ==
    /\ pc = "loop"
    /\ \E j, k \in 1..Len(vtxList) :
           /\ vtxList[j].color = kVertexColor_Black
           /\ vtxList[k].color = kVertexColor_Grey
           /\ vtxList[j].distance >= 1
    /\ Len(vtxList) >= 6

\* C17: every Edge joins two configurations one legal move apart (one disk
\* d on another peg, no disk of lower index on d's peg or on the peg it goes
\* to), and an expanded vertex has an Edge to every configuration one legal
\* move from its own.
C17_EdgesAreLegalMoves ==
    \A u \in 1..Len(vtxList) :
        /\ \A e \in 1..Len(vtxList[u].edgeList) :
               LET x == vtxList[u].edgeList[e]
               IN  /\ x \in 0..(Len(vtxList) - 1)
                   /\ LegalMove(vtxList[u].state, vtxList[x + 1].state)
        /\ vtxList[u].color = kVertexColor_Black => AllNeighboursGenerated(u)

C17_Witness ==
    /\ pc = "loop"
    /\ numPegs = 3
    /\ numDisks = 3
    /\ \E u \in 1..Len(vtxList) :
           /\ vtxList[u].color = kVertexColor_Black
           /\ Cardinality(Successors(vtxList[u].state, numPegs)) = 3
           /\ Len(vtxList[u].edgeList) >= 3

\* C18: BuildAndExplore called on the Graph as a search has left it returns
\* the same distance and leaves the same vertices, identifiers from 0, as the
\* same call on a Graph just constructed.
C18_SecondCallAsFresh ==
    pc = "printed" =>
        \A pair \in {<<startState, endState>>, <<endState, startState>>} :
            LET again == BuildAndExploreOn(vtxList, numVertices, pair[1],
                                           pair[2], numPegs)
                fresh == BuildAndExplore(pair[1], pair[2], numPegs)
            IN  /\ again = fresh
                /\ again.vtxList[1].index = 0
                /\ again.vtxList[1].state = pair[1]
                /\ again.numVertices = Len(again.vtxList)

C18_Witness ==
    /\ pc = "printed"
    /\ Len(vtxList) >= 9
    /\ startState # endState
    /\ BuildAndExploreOn(vtxList, numVertices, endState, startState,
                         numPegs).returns

\* C19: each vertex other than the start that is Grey or Black has a
\* predecessor that is Grey or Black, one less in distance, and whose
\* configuration differs in one disk, on peg lastMove[0]-1 there and on peg
\* lastMove[1]-1 here, both entries of lastMove being in 1..numPegs and
\* different.
C19_PredecessorConsistent ==
    \A k \in 1..Len(vtxList) :
        (vtxList[k].color # kVertexColor_White /\ vtxList[k].state # startState)
        => LET v == vtxList[k]
               q == v.predecessor
           IN  /\ q # NULL
               /\ vtxList[q].color # kVertexColor_White
               /\ vtxList[q].distance + 1 = v.distance
               /\ v.lastMove[1] \in 1..numPegs
               /\ v.lastMove[2] \in 1..numPegs
               /\ v.lastMove[1] # v.lastMove[2]
               /\ \E d \in 1..Len(v.state) :
                      /\ vtxList[q].state[d] = v.lastMove[1] - 1
                      /\ v.state[d] = v.lastMove[2] - 1
                      /\ \A c \in 1..Len(v.state) :
                             c # d => v.state[c] = vtxList[q].state[c]

\* C19 on well-formed input only.
C19_WellFormedOnly == WellFormed => C19_PredecessorConsistent

\* C20: while the search runs the queue holds Grey vertices only, each once,
\* in non-decreasing distance with the last at most one more than the first
\* (and than the vertex being expanded); no Black vertex is farther than a
\* Grey one, and none is farther than the goal when its distance is returned.
C20_FrontierInvariant ==
    /\ pc \in {"loop", "expand"} =>
          /\ \A a \in 1..Len(bfsList) :
                 /\ vtxList[bfsList[a]].color = kVertexColor_Grey
                 /\ Count(bfsList, bfsList[a]) = 1
          /\ \A a, b \in 1..Len(bfsList) :
                 a < b => vtxList[bfsList[a]].distance
                              <= vtxList[bfsList[b]].distance
          /\ bfsList # <<>> =>
                 vtxList[bfsList[Len(bfsList)]].distance
                     <= vtxList[bfsList[1]].distance + 1
          /\ pc = "expand" =>
                 \A a \in 1..Len(bfsList) :
                     /\ vtxList[curVtx].distance <= vtxList[bfsList[a]].distance
                     /\ vtxList[bfsList[a]].distance
                            <= vtxList[curVtx].distance + 1
          /\ \A j, k \in 1..Len(vtxList) :
                 (vtxList[j].color = kVertexColor_Black
                    /\ vtxList[k].color = kVertexColor_Grey)
                 => vtxList[j].distance <= vtxList[k].distance
    /\ (pc = "returned" /\ GoalSettled) =>
          \A j \in 1..Len(vtxList) :
              vtxList[j].color = kVertexColor_Black
              => vtxList[j].distance <= numMoves

C20_Witness ==
    /\ pc = "expand"
    /\ Len(bfsList) >= 3
    /\ vtxList[bfsList[1]].distance = vtxList[curVtx].distance
    /\ vtxList[bfsList[Len(bfsList)]].distance = vtxList[curVtx].distance + 1
    /\ vtxList[curVtx].distance >= 2

====
